---- MODULE Spec2Model ----
(***************************************************************************)
(* A model of the frogfs runtime library (src/src/frogfs.c): binding an    *)
(* image, resolving a path through the sorted hash index, reconstructing   *)
(* an entry's path, stat, opening, seeking and closing files and iterating *)
(* directories.                                                            *)
(*                                                                         *)
(* An image is a record of its header, its hash index and its entry        *)
(* records, addressed by byte offset as in the C code.  32-bit hash values *)
(* are kept as two 16-bit limbs, <<hi, lo>>, so that the wrap-around       *)
(* arithmetic of djb2_hash is computed exactly.                            *)
(***************************************************************************)
EXTENDS Integers, Sequences, FiniteSets, TLC

\* ------------------------------------------------------------------ bounds

\* Entries of an image, the root included.
MaxEntries == 3
\* Leading '/' characters put in front of a path given to frogfs_get_entry.
MaxSlashes == 2
\* Largest location given to frogfs_seekdir.
MaxLoc == 4
\* PATH_MAX of <limits.h>, the size of the buffer of frogfs_get_path, scaled
\* down so that reconstructed paths reach it.
PATH_MAX == 10
\* The width in bits of the 32-bit size fields of an entry (data_sz,
\* real_sz) and of size_t where it is 32 bits wide, scaled down.
SizeBits == 4

\* --------------------------------------------------------------- constants

\* sizeof(frogfs_head_t): magic, ver_major, ver_minor, reserved, num_entries,
\* binary_length.
HeadSize == 16
\* sizeof(frogfs_hash_t): hash, offs.
HashSize == 8
FROGFS_MAGIC == 1179603783
FROGFS_VER_MAJOR == 1
FROGFS_COMP_ALGO_DEFLATE == 1
FROGFS_COMP_ALGO_HEATSHRINK == 2
FROGFS_OPEN_RAW == 1

Slash == 47
\* The largest value of a 32-bit size field.
U32Max == 2 ^ SizeBits - 1
\* A null descriptor or handle pointer, and a null entry pointer (entries are
\* named by their offset in the image, and no entry is at offset 0).
NULL == [null |-> TRUE]
NoEntry == 0

\* ----------------------------------------------------------------- helpers

Min(a, b) == IF a < b THEN a ELSE b

RECURSIVE XorBits(_, _, _)
\* The exclusive or of the low n bits of a and b.
XorBits(a, b, n) ==
    IF n = 0 THEN 0
    ELSE (((a % 2) + (b % 2)) % 2) + 2 * XorBits(a \div 2, b \div 2, n - 1)

\* Returns the current or next highest multiple of 4.
align(n) == ((n + 4 - 1) \div 4) * 4

\* One round of djb2_hash on the 32-bit value h = <<hi, lo>>:
\* ((hash << 5) + hash) ^ c, where c is the char *s converted to unsigned
\* long: a byte above 127 is sign-extended when char is a signed type.
\* Only the low 32 bits are kept: they are what the uint32_t return value
\* holds, and no higher bit of a wider unsigned long reaches them.
djb2_round(h, c, charSigned) ==
    LET lo33 == h[2] * 33
        hi33 == (h[1] * 33 + (lo33 \div 65536)) % 65536
        lo   == lo33 % 65536
    IN IF charSigned /\ c > 127
       THEN << 65535 - hi33,
               (255 - lo \div 256) * 256 + XorBits(lo % 256, c, 8) >>
       ELSE << hi33, (lo \div 256) * 256 + XorBits(lo % 256, c, 8) >>

RECURSIVE djb2_from(_, _, _)
djb2_from(h, s, charSigned) ==
    IF s = << >> THEN h
    ELSE djb2_from(djb2_round(h, Head(s), charSigned), Tail(s), charSigned)

\* String hashing function: hash = 5381, then one round per byte.
djb2_hash(s, charSigned) == djb2_from(<<0, 5381>>, s, charSigned)

\* e->hash < hash on 32-bit unsigned values.
HashLess(a, b) == a[1] < b[1] \/ (a[1] = b[1] /\ a[2] < b[2])

\* ------------------------------------------------------------- the images

\* The entries the packer chooses from: a path segment (bytes), a type and,
\* for a file, its compression tag and sizes.  At top level "41", "6s" and
\* "7R" have one hash ("7R" has the largest real_sz its field holds), and "epjemqf" and "uukgacke" have the hash of the
\* empty path (5381), the root's; "uukgacke" is too long for the buffer of
\* frogfs_get_path at PATH_MAX = 10.
Templates ==
    << [name |-> <<52, 49>>, type |-> "DIR", compression |-> 0,
        data_sz |-> 0, real_sz |-> 0],
       [name |-> <<54, 115>>, type |-> "FILE", compression |-> 1,
        data_sz |-> 5, real_sz |-> 9],
       [name |-> <<55, 82>>, type |-> "FILE", compression |-> 2,
        data_sz |-> 6, real_sz |-> U32Max],
       [name |-> <<101, 112, 106, 101, 109, 113, 102>>, type |-> "FILE",
        compression |-> 0, data_sz |-> 3, real_sz |-> 0],
       [name |-> <<117, 117, 107, 103, 97, 99, 107, 101>>, type |-> "FILE",
        compression |-> 0, data_sz |-> 2, real_sz |-> 0],
       [name |-> <<195, 169>>, type |-> "FILE", compression |-> 3,
        data_sz |-> 4, real_sz |-> 7] >>

RootTemplate ==
    [name |-> << >>, type |-> "DIR", compression |-> 0,
     data_sz |-> 0, real_sz |-> 0]

\* A layout is the packer's list of the entries after the root, in storage
\* order: lay[k] is entry k + 1, made from template lay[k].tpl under the
\* parent with storage number lay[k].par (1 is the root).
LayTpl(lay, i) == IF i = 1 THEN RootTemplate ELSE Templates[lay[i - 1].tpl]
LayPar(lay, i) == IF i = 1 THEN 0 ELSE lay[i - 1].par

RECURSIVE SetToSeq(_)
\* The members of a set of numbers, ascending.
SetToSeq(S) ==
    IF S = {} THEN << >>
    ELSE LET m == CHOOSE x \in S : \A y \in S : x <= y
         IN <<m>> \o SetToSeq(S \ {m})

\* Every choice of at most MaxEntries - 1 templates, stored in the order of
\* Templates, each under the root or under a directory stored before it.
Layouts ==
    UNION { LET t == SetToSeq(T)
            IN { [k \in 1..Len(t) |-> [tpl |-> t[k], par |-> par[k]]] :
                 par \in { q \in [1..Len(t) -> 1..(Len(t) + 1)] :
                             \A k \in 1..Len(t) :
                               /\ q[k] <= k
                               /\ q[k] = 1 \/ Templates[t[q[k] - 1]].type = "DIR" } }
            : T \in { U \in SUBSET (1..Len(Templates)) :
                        Cardinality(U) <= MaxEntries - 1 } }

RECURSIVE LayKidsFrom(_, _, _)
\* The storage numbers, ascending from j, of the children of entry i.
LayKidsFrom(lay, i, j) ==
    IF j > Len(lay) + 1 THEN << >>
    ELSE (IF LayPar(lay, j) = i THEN <<j>> ELSE << >>)
         \o LayKidsFrom(lay, i, j + 1)

LayKids(lay, i) == LayKidsFrom(lay, i, 2)

\* The size of entry i's record: the 8-byte common prefix, then the child
\* offsets (a directory), data_offs and data_sz (a file), real_sz too (a
\* compressed file), then the NUL-terminated name padded to 4 bytes.
LaySize(lay, i) ==
    LET t == LayTpl(lay, i)
    IN (IF t.type = "DIR" THEN 8 + Len(LayKids(lay, i)) * 4
        ELSE IF t.compression = 0 THEN 16 ELSE 20)
       + align(Len(t.name) + 1)

RECURSIVE LayOffs(_, _)
\* The image offset of entry i: the root follows the hash index.
LayOffs(lay, i) ==
    IF i = 1 THEN HeadSize + HashSize * (Len(lay) + 1)
    ELSE LayOffs(lay, i - 1) + LaySize(lay, i - 1)

RECURSIVE LayDataOffs(_, _)
\* The image offset of entry i's payload: payloads follow the entries.
LayDataOffs(lay, i) ==
    IF i = 1 THEN LayOffs(lay, Len(lay) + 1) + LaySize(lay, Len(lay) + 1)
    ELSE LayDataOffs(lay, i - 1) + align(LayTpl(lay, i - 1).data_sz)

RECURSIVE LayPath(_, _)
\* The full path of entry i, relative to the root, with no leading '/'.
LayPath(lay, i) ==
    IF i = 1 THEN << >>
    ELSE IF LayPar(lay, i) = 1 THEN LayTpl(lay, i).name
    ELSE LayPath(lay, LayPar(lay, i)) \o <<Slash>> \o LayTpl(lay, i).name

RECURSIVE SeqMap(_, _)
\* The offsets of the storage numbers in s.
SeqMap(lay, s) ==
    IF s = << >> THEN << >>
    ELSE <<LayOffs(lay, Head(s))>> \o SeqMap(lay, Tail(s))

LayEntry(lay, i) ==
    LET t == LayTpl(lay, i)
    IN [type        |-> t.type,
        compression |-> t.compression,
        seg_sz      |-> Len(t.name),
        parent      |-> IF i = 1 THEN 0 ELSE LayOffs(lay, LayPar(lay, i)),
        child_count |-> Len(LayKids(lay, i)),
        children    |-> SeqMap(lay, LayKids(lay, i)),
        name        |-> t.name,
        data_sz     |-> t.data_sz,
        data_offs   |-> IF t.type = "FILE" THEN LayDataOffs(lay, i) ELSE 0,
        real_sz     |-> t.real_sz]

\* The orders of a hash index that are ascending by hash: the permutations
\* p of 1..n with h[p[1]] <= ... <= h[p[n]] (the order within a group of
\* equal hashes is free).
SortedOrders(h, n) ==
    { q \in Permutations(1..n) :
        \A k \in 1..(n - 1) : ~HashLess(h[q[k + 1]], h[q[k]]) }

\* The image of a layout whose hash index is in order p.
LayImage(lay, h, offs, ent, p) ==
    [num_entries |-> Len(lay) + 1,
     bin_sz      |-> LayDataOffs(lay, Len(lay) + 2),
     hash        |-> [k \in 1..(Len(lay) + 1) |->
                        [hash |-> h[p[k]], offs |-> offs[p[k]]]],
     ent         |-> ent]

RECURSIVE LayHashes(_, _)
\* The hashes of the full paths of entries i, i + 1, ... of a layout.  The
\* packer hashes the bytes of the path as unsigned values.
LayHashes(lay, i) ==
    IF i > Len(lay) + 1 THEN << >>
    ELSE <<djb2_hash(LayPath(lay, i), FALSE)>> \o LayHashes(lay, i + 1)

RECURSIVE Iota(_, _)
\* <<i, i + 1, ..., n>>
Iota(i, n) == IF i > n THEN << >> ELSE <<i>> \o Iota(i + 1, n)

\* The images of a layout: one for each ascending order of its hash index.
LayImages(lay) ==
    LET n    == Len(lay) + 1
        h    == LayHashes(lay, 1)
        offs == SeqMap(lay, Iota(1, n))
        ent  == [o \in {offs[i] : i \in 1..n} |->
                   LayEntry(lay, CHOOSE i \in 1..n : offs[i] = o)]
    IN { LayImage(lay, h, offs, ent, p) : p \in SortedOrders(h, n) }

\* The images the packer can build within the bounds.
Images == UNION { LayImages(lay) : lay \in Layouts }

\* ------------------------------------------------------ path reconstruction

\* frogfs_get_name: the name bytes that memcpy takes, entry->seg_sz of them.
frogfs_get_name(img, entry) == SubSeq(img.ent[entry].name, 1, img.ent[entry].seg_sz)

RECURSIVE get_path_loop(_, _, _, _, _)
\* The while loop of frogfs_get_path: path is the string in the buffer and
\* len its length.  Under the root (parent == fs->root) the name is put in
\* front and the loop ends; under another directory '/' and the name are put
\* in front and the walk goes on from the parent.
get_path_loop(img, fs, entry, path, len) ==
    LET e == img.ent[entry]
    IN IF e.parent # 0 /\ len + e.seg_sz + 1 < PATH_MAX - 1
       THEN IF e.parent = fs.root
            THEN frogfs_get_name(img, entry) \o path
            ELSE get_path_loop(img, fs, e.parent,
                               <<Slash>> \o frogfs_get_name(img, entry) \o path,
                               len + e.seg_sz + 1)
       ELSE path

\* frogfs_get_path, for a call whose calloc(PATH_MAX, 1) succeeds: the string
\* left in the buffer.
frogfs_get_path(img, fs, entry) ==
    IF img.ent[entry].parent = 0 THEN << >>
    ELSE get_path_loop(img, fs, entry, << >>, 0)

\* ------------------------------------------------------------ the resolver

\* StripSlashes with "if" for "while": one leading '/' is dropped.
StripOneSlash(path) ==
    IF path # << >> /\ Head(path) = Slash THEN Tail(path) ELSE path

RECURSIVE StripSlashes(_)
\* while (*path == '/') path++;
StripSlashes(path) ==
    IF path # << >> /\ Head(path) = Slash THEN StripSlashes(Tail(path))
    ELSE path

\* fs->hash[i], with i counted from 0 as in C.
HashAt(img, i) == img.hash[i + 1]

RECURSIVE bsearch_loop(_, _, _, _, _)
\* The binary search of frogfs_get_entry.  It ends at a break (found) or
\* with first > last; middle is -1 while it is not yet assigned.
bsearch_loop(img, hash, first, last, middle) ==
    IF first <= last
    THEN LET m == first + (last - first) \div 2
         IN IF HashAt(img, m).hash = hash
            THEN [first |-> first, last |-> last, middle |-> m]
            ELSE IF HashLess(HashAt(img, m).hash, hash)
                 THEN bsearch_loop(img, hash, m + 1, last, m)
                 ELSE bsearch_loop(img, hash, first, m - 1, m)
    ELSE [first |-> first, last |-> last, middle |-> middle]

RECURSIVE rewind_loop(_, _, _, _)
\* "move e to the first match": e is the index of the record e points to.
\* e is set at the top of each round only, so the round that brings middle
\* to 0 leaves e one record behind it.
rewind_loop(img, hash, middle, e) ==
    IF middle > 0
    THEN IF HashAt(img, middle - 1).hash # hash
         THEN [middle |-> middle, e |-> middle]
         ELSE rewind_loop(img, hash, middle - 1, middle)
    ELSE [middle |-> middle, e |-> e]

\* walk_loop without the strcmp: the first candidate is returned.
walk_first_candidate(img, fs, path, hash, middle, last, e) ==
    [entry |-> HashAt(img, e).offs, examined |-> <<e>>]

RECURSIVE walk_loop(_, _, _, _, _, _, _)
\* The do-while that walks the candidates.  e is not advanced in the loop
\* (entry++ is overwritten at the top of the next round), so every round
\* looks at the same record.  examined lists the index looked at in each
\* round.
walk_loop(img, fs, path, hash, middle, last, e) ==
    LET entry == HashAt(img, e).offs
    IN IF path = frogfs_get_path(img, fs, entry)
       THEN [entry |-> entry, examined |-> <<e>>]
       ELSE IF middle + 1 < last /\ HashAt(img, e).hash = hash
            THEN LET r == walk_loop(img, fs, path, hash, middle + 1, last, e)
                 IN [entry |-> r.entry, examined |-> <<e>> \o r.examined]
            ELSE [entry |-> NoEntry, examined |-> <<e>>]

\* frogfs_get_entry(fs, path), for an index of fs->num_entries records inside
\* the image: the entry returned (its offset, or NoEntry) and the records
\* examined.
frogfs_get_entry(img, fs, path, charSigned) ==
    LET p    == StripSlashes(path)
        hash == djb2_hash(p, charSigned)
        b    == bsearch_loop(img, hash, 0, fs.num_entries - 1, -1)
    IN IF b.first > b.last
       THEN [entry |-> NoEntry, examined |-> << >>]
       ELSE LET r == rewind_loop(img, hash, b.middle, b.middle)
            IN walk_loop(img, fs, p, hash, r.middle, b.last, r.e)

\* ------------------------------------------------------- the state machine

VARIABLES
    image,  \* the image in flash or memory; it never changes
    fs,     \* the client's frogfs_fs_t *: NULL or the bound descriptor
    fh,     \* the client's frogfs_fh_t *: NULL or the open file handle
    dh,     \* the client's frogfs_dh_t *: NULL or the open directory handle
    heap,   \* the live blocks of each kind that calloc gave and free has not taken
    pc,     \* "idle", "seekdir" inside the loop of frogfs_seekdir, or
            \* "get_path" inside the loop of frogfs_get_path
    loc,    \* the argument of the frogfs_seekdir call in progress
    gp,     \* the locals of the frogfs_get_path call in progress
    ret     \* the last call: its inputs, its result and the calls it made

vars == <<image, fs, fh, dh, heap, pc, loc, gp, ret>>

\* The client makes one call at a time, resolves paths while it holds no
\* handle, and holds one handle at a time.  ret keeps a call's record until
\* the client takes it (Taken), and only then is the next call made.
NoCall == [op |-> "none"]
\* gp outside a frogfs_get_path call.
NoFrame == [on |-> FALSE]
Idle == pc = "idle" /\ ret = NoCall

\* The index of fs->num_entries records is the one the image holds.
Bound == fs # NULL /\ fs.num_entries = image.num_entries

IsDir(entry) == image.ent[entry].type = "DIR"
IsFile(entry) == image.ent[entry].type = "FILE"

\* ------------------------------------------------------------ frogfs_init

\* The headers the bytes given to frogfs_init may start with: the image's
\* own, and it with one field changed.  BigCount is a num_entries whose hash
\* index does not fit in the image.
BigCount == image.bin_sz

GoodHead ==
    [magic |-> FROGFS_MAGIC, ver_major |-> FROGFS_VER_MAJOR, ver_minor |-> 0,
     num_entries |-> image.num_entries]

Heads ==
    { GoodHead,
      [GoodHead EXCEPT !.magic = FROGFS_MAGIC + 1],
      [GoodHead EXCEPT !.ver_major = FROGFS_VER_MAJOR + 1],
      [GoodHead EXCEPT !.ver_minor = 1],
      [GoodHead EXCEPT !.num_entries = BigCount] }

\* The configurations and builds of a frogfs_init call: conf->addr given or
\* NULL; ESP_PLATFORM defined or not; and, where the partition is looked up,
\* whether esp_partition_find_first finds it and esp_partition_mmap maps it.
Confs ==
    { [addr |-> TRUE, esp |-> e, part |-> FALSE, mmap |-> FALSE] : e \in BOOLEAN }
    \cup { [addr |-> FALSE, esp |-> FALSE, part |-> FALSE, mmap |-> FALSE],
           [addr |-> FALSE, esp |-> TRUE, part |-> FALSE, mmap |-> FALSE],
           [addr |-> FALSE, esp |-> TRUE, part |-> TRUE, mmap |-> FALSE],
           [addr |-> FALSE, esp |-> TRUE, part |-> TRUE, mmap |-> TRUE] }

\* The calls frogfs_deinit makes on a descriptor: spi_flash_munmap when it
\* holds a mapping, then free.
deinit_calls(mmap_handle) ==
    (IF mmap_handle # 0 THEN <<"munmap">> ELSE << >>) \o <<"free">>

\* init_body without the check of the major version.
init_body_any_major(conf, head) ==
    LET mapped == ~conf.addr /\ conf.esp /\ conf.part /\ conf.mmap
        handle == IF mapped THEN 1 ELSE 0
        calls  == IF mapped THEN <<"mmap">> ELSE << >>
    IN IF ~conf.addr /\ ~mapped
       THEN [fs |-> NULL, calls |-> <<"free">>]
       ELSE IF head.magic # FROGFS_MAGIC
       THEN [fs |-> NULL,
             calls |-> calls \o (IF mapped THEN <<"munmap">> ELSE << >>)
                             \o <<"free">>]
       ELSE [fs |-> [head |-> 0,
                     hash |-> HeadSize,
                     root |-> HeadSize + HashSize * head.num_entries,
                     num_entries |-> head.num_entries,
                     mmap_handle |-> handle],
             calls |-> calls]

\* What a frogfs_init call whose calloc succeeded does: the descriptor it
\* returns (or NULL) and the calls it makes after calloc.
init_body(conf, head) ==
    LET mapped == ~conf.addr /\ conf.esp /\ conf.part /\ conf.mmap
        handle == IF mapped THEN 1 ELSE 0
        calls  == IF mapped THEN <<"mmap">> ELSE << >>
    IN IF ~conf.addr /\ ~mapped
       THEN [fs |-> NULL, calls |-> deinit_calls(0)]
       ELSE IF head.magic # FROGFS_MAGIC
       THEN [fs |-> NULL, calls |-> calls \o deinit_calls(handle)]
       ELSE IF head.ver_major # FROGFS_VER_MAJOR
       THEN [fs |-> NULL, calls |-> calls \o deinit_calls(handle)]
       ELSE [fs |-> [head |-> 0,
                     hash |-> HeadSize,
                     root |-> HeadSize + HashSize * head.num_entries,
                     num_entries |-> head.num_entries,
                     mmap_handle |-> handle],
             calls |-> calls]

\* The number of times c is in the sequence of calls s.
Count(s, c) == Cardinality({ i \in 1..Len(s) : s[i] = c })

frogfs_init(conf, head, callocOk) ==
    /\ Idle /\ fs = NULL
    /\ LET r == IF callocOk THEN init_body(conf, head)
                ELSE [fs |-> NULL, calls |-> << >>]
           calls == IF callocOk THEN <<"calloc">> \o r.calls ELSE << >>
       IN /\ fs' = r.fs
          /\ heap' = [heap EXCEPT !.fs = @ + Count(calls, "calloc")
                                          - Count(calls, "free")]
          /\ ret' = [op |-> "init", conf |-> conf,
                     head |-> IF callocOk /\ (conf.addr \/ Count(calls, "mmap") = 1)
                              THEN head ELSE NULL,
                     fs |-> r.fs, calls |-> calls]
    /\ UNCHANGED <<image, gp, fh, dh, pc, loc>>

frogfs_deinit ==
    /\ Idle /\ fs # NULL /\ fh = NULL /\ dh = NULL
    /\ fs' = NULL
    /\ heap' = [heap EXCEPT !.fs = @ - 1]
    /\ ret' = [op |-> "deinit", calls |-> deinit_calls(fs.mmap_handle)]
    /\ UNCHANGED <<image, gp, fh, dh, pc, loc>>

\* ------------------------------------------------------- frogfs_get_entry

RECURSIVE TruePath(_)
\* The path the packer gave an entry: the segments from the root's child
\* down to it, joined by '/'.
TruePath(entry) ==
    LET e == image.ent[entry]
    IN IF e.parent = 0 THEN << >>
       ELSE IF image.ent[e.parent].parent = 0 THEN e.name
       ELSE TruePath(e.parent) \o <<Slash>> \o e.name

Entries == DOMAIN image.ent

\* The paths the client asks for, before any leading '/': the path of every
\* entry, what frogfs_get_path makes of every entry, and every name of
\* Templates, in the image or not.
Probes ==
    { TruePath(o) : o \in Entries }
    \cup { frogfs_get_path(image, fs, o) : o \in Entries }
    \cup { Templates[i].name : i \in 1..Len(Templates) }

RECURSIVE Slashes(_)
Slashes(k) == IF k = 0 THEN << >> ELSE <<Slash>> \o Slashes(k - 1)

\* A frogfs_get_entry call.  charSigned: whether char is signed in the build.
Resolve(path, charSigned) ==
    /\ Idle /\ Bound /\ fh = NULL /\ dh = NULL
    /\ LET r == frogfs_get_entry(image, fs, path, charSigned)
       IN ret' = [op |-> "get_entry", path |-> path, charSigned |-> charSigned,
                  entry |-> r.entry, examined |-> r.examined]
    /\ UNCHANGED <<image, gp, fs, fh, dh, heap, pc, loc>>

\* -------------------------------------------------------- frogfs_get_path

Max(a, b) == IF a > b THEN a ELSE b

NonRoot == { o \in Entries : image.ent[o].parent # 0 }

\* The non-root entry stored after o, or the first one after the last.
NextNonRoot(o) ==
    LET after == { x \in NonRoot : x > o }
        from  == IF after = {} THEN NonRoot ELSE after
    IN CHOOSE x \in from : \A y \in from : x <= y

\* The shapes of the parent links a frogfs_get_path call may find: "tree" is
\* what the packer wrote; in "self" every entry but the root is its own
\* parent and in "ring" each has the next one as its parent, so that no walk
\* up the parents reaches the root.
Kinds == {"tree", "self", "ring"}

\* The entry records of the image, as written (kind "tree", zero FALSE) or
\* malformed: parent links of the given kind and, with zero, seg_sz 0 in
\* every entry.
Malformed(kind, zero) ==
    [o \in Entries |->
        IF image.ent[o].parent = 0 THEN image.ent[o]
        ELSE [image.ent[o] EXCEPT
                !.parent = IF kind = "self" THEN o
                           ELSE IF kind = "ring" THEN NextNonRoot(o)
                           ELSE @,
                !.seg_sz = IF zero THEN 0 ELSE @]]

\* The records the call in progress reads.
FrameEnt == Malformed(gp.kind, gp.zero)

\* get_path_cond with the whole buffer taken as room for the path.
get_path_cond_no_room(e, len) ==
    e.parent # 0 /\ len + e.seg_sz < PATH_MAX

\* get_path_cond without the test of the length.
get_path_cond_no_limit(e, len) ==
    e.parent # 0

\* The condition of the while loop of frogfs_get_path, on the entry record e
\* and the length len.
get_path_cond(e, len) ==
    e.parent # 0 /\ len + e.seg_sz + 1 < PATH_MAX - 1

\* The record of a frogfs_get_path call: ok is FALSE when calloc failed and
\* NULL was returned; path is the string in the buffer returned, len the
\* local len, rounds the rounds of the loop made, hi the highest end
\* (offset past the last byte) of the memmove and memcpy destinations.
get_path_ret(entry, kind, zero, ok, path, len, rounds, hi) ==
    [op |-> "get_path", entry |-> entry, kind |-> kind, zero |-> zero,
     ok |-> ok, path |-> path, len |-> len, rounds |-> rounds, hi |-> hi]

\* frogfs_get_path(fs, entry) up to its loop.
get_path_call(entry, kind, zero, callocOk) ==
    /\ Idle /\ Bound /\ fh = NULL /\ dh = NULL
    /\ IF ~callocOk
       THEN /\ ret' = get_path_ret(entry, kind, zero, FALSE, << >>, 0, 0, 0)
            /\ UNCHANGED <<pc, gp>>
       ELSE IF Malformed(kind, zero)[entry].parent = 0
       THEN /\ ret' = get_path_ret(entry, kind, zero, TRUE, << >>, 0, 0, 0)
            /\ UNCHANGED <<pc, gp>>
       ELSE /\ pc' = "get_path"
            /\ gp' = [on |-> TRUE, arg |-> entry, kind |-> kind, zero |-> zero,
                      entry |-> entry, path |-> << >>, len |-> 0,
                      rounds |-> 0, hi |-> 0, done |-> FALSE]
            /\ UNCHANGED ret
    /\ UNCHANGED <<image, fs, fh, dh, heap, loc>>

\* One round of the loop.  Under the root: memmove(path + seg_sz, path, len),
\* memcpy(path, name, seg_sz), break.  Else: memmove(path + seg_sz + 1, path,
\* len + 1), path[0] = '/', memcpy(path + 1, name, seg_sz), and the walk
\* goes on from the parent.
get_path_round ==
    /\ pc = "get_path" /\ ~gp.done
    /\ get_path_cond(FrameEnt[gp.entry], gp.len)
    /\ LET e    == FrameEnt[gp.entry]
           name == frogfs_get_name([ent |-> FrameEnt], gp.entry)
       IN IF e.parent = fs.root
          THEN gp' = [gp EXCEPT
                        !.path = name \o @,
                        !.len = @ + e.seg_sz,
                        !.rounds = @ + 1,
                        !.hi = Max(@, IF gp.len > 0 THEN e.seg_sz + gp.len
                                      ELSE e.seg_sz),
                        !.done = TRUE]
          ELSE gp' = [gp EXCEPT
                        !.path = <<Slash>> \o name \o @,
                        !.len = @ + e.seg_sz + 1,
                        !.rounds = @ + 1,
                        !.hi = Max(@, e.seg_sz + 1 + gp.len + 1),
                        !.entry = e.parent]
    /\ UNCHANGED <<image, fs, fh, dh, heap, pc, loc, ret>>

\* The loop ends, at the break or with its condition false, and the buffer
\* is returned.
get_path_return ==
    /\ pc = "get_path"
    /\ gp.done \/ ~get_path_cond(FrameEnt[gp.entry], gp.len)
    /\ pc' = "idle" /\ gp' = NoFrame
    /\ ret' = get_path_ret(gp.arg, gp.kind, gp.zero, TRUE, gp.path, gp.len,
                           gp.rounds, gp.hi)
    /\ UNCHANGED <<image, fs, fh, dh, heap, loc>>

\* ------------------------------------------------------------ frogfs_stat

\* stat_body with real_sz and data_sz of a compressed file exchanged.
stat_body_sizes_swapped(entry) ==
    LET e   == image.ent[entry]
        st0 == [type |-> "DIR", compression |-> 0, compressed_sz |-> 0,
                size |-> 0]
    IN IF IsDir(entry) THEN st0
       ELSE IF e.compression # 0
       THEN [type |-> "FILE", compression |-> e.compression,
             compressed_sz |-> e.real_sz, size |-> e.data_sz]
       ELSE [type |-> "FILE", compression |-> e.compression,
             compressed_sz |-> e.data_sz, size |-> e.data_sz]

\* The frogfs_stat_t that frogfs_stat fills: all zero from memset, then the
\* type and, for a file, the compression tag and the sizes.
stat_body(entry) ==
    LET e   == image.ent[entry]
        st0 == [type |-> "DIR", compression |-> 0, compressed_sz |-> 0,
                size |-> 0]
    IN IF IsDir(entry) THEN st0
       ELSE IF e.compression # 0
       THEN [type |-> "FILE", compression |-> e.compression,
             compressed_sz |-> e.data_sz, size |-> e.real_sz]
       ELSE [type |-> "FILE", compression |-> e.compression,
             compressed_sz |-> e.data_sz, size |-> e.data_sz]

frogfs_stat(entry) ==
    /\ Idle /\ Bound /\ fh = NULL /\ dh = NULL
    /\ ret' = [op |-> "stat", entry |-> entry, st |-> stat_body(entry)]
    /\ UNCHANGED <<image, gp, fs, fh, dh, heap, pc, loc>>

\* ------------------------------------------------------------ directories

\* frogfs_opendir that takes a file entry like a directory.
frogfs_opendir_any_entry(entry, callocOk) ==
    /\ Idle /\ Bound /\ fh = NULL /\ dh = NULL
    /\ IF ~callocOk
       THEN /\ ret' = [op |-> "opendir", entry |-> entry, calls |-> << >>]
            /\ UNCHANGED <<dh, heap>>
       ELSE /\ dh' = [dir |-> IF entry = NoEntry THEN fs.root ELSE entry,
                      index |-> 0]
            /\ heap' = [heap EXCEPT !.dh = @ + 1]
            /\ ret' = [op |-> "opendir", entry |-> entry, calls |-> <<"calloc">>]
    /\ UNCHANGED <<image, gp, fs, fh, pc, loc>>

\* frogfs_opendir(fs, entry): entry may be NoEntry (NULL), which means the
\* root.
frogfs_opendir(entry, callocOk) ==
    /\ Idle /\ Bound /\ fh = NULL /\ dh = NULL
    /\ IF entry # NoEntry /\ IsFile(entry)
       THEN /\ ret' = [op |-> "opendir", entry |-> entry, calls |-> << >>]
            /\ UNCHANGED <<dh, heap>>
       ELSE IF ~callocOk
       THEN /\ ret' = [op |-> "opendir", entry |-> entry, calls |-> << >>]
            /\ UNCHANGED <<dh, heap>>
       ELSE /\ dh' = [dir |-> IF entry = NoEntry THEN fs.root ELSE entry,
                      index |-> 0]
            /\ heap' = [heap EXCEPT !.dh = @ + 1]
            /\ ret' = [op |-> "opendir", entry |-> entry, calls |-> <<"calloc">>]
    /\ UNCHANGED <<image, gp, fs, fh, pc, loc>>

\* frogfs_closedir(dh), dh being the client's handle or NULL.
frogfs_closedir ==
    /\ Idle
    /\ IF dh = NULL
       THEN /\ ret' = [op |-> "closedir", calls |-> << >>]
            /\ UNCHANGED <<dh, heap>>
       ELSE /\ dh' = NULL
            /\ heap' = [heap EXCEPT !.dh = @ - 1]
            /\ ret' = [op |-> "closedir", calls |-> <<"free">>]
    /\ UNCHANGED <<image, gp, fs, fh, pc, loc>>

\* readdir_body with the index advanced at the end of the directory too.
readdir_body_no_end(d) ==
    IF d.index < image.ent[d.dir].child_count
    THEN [entry |-> image.ent[d.dir].children[d.index + 1],
          dh    |-> [d EXCEPT !.index = (@ + 1) % 65536]]
    ELSE [entry |-> NoEntry, dh |-> [d EXCEPT !.index = (@ + 1) % 65536]]

\* frogfs_readdir on handle d: the entry returned and the handle after it.
readdir_body(d) ==
    IF d.dir = NoEntry THEN [entry |-> NoEntry, dh |-> d]
    ELSE IF d.index < image.ent[d.dir].child_count
    THEN [entry |-> image.ent[d.dir].children[d.index + 1],
          dh    |-> [d EXCEPT !.index = (@ + 1) % 65536]]
    ELSE [entry |-> NoEntry, dh |-> d]

frogfs_readdir ==
    /\ Idle /\ dh # NULL
    /\ dh' = readdir_body(dh).dh
    /\ ret' = [op |-> "readdir", index |-> dh.index,
               entry |-> readdir_body(dh).entry]
    /\ UNCHANGED <<image, gp, fs, fh, heap, pc, loc>>

frogfs_rewinddir ==
    /\ Idle /\ dh # NULL
    /\ dh' = [dh EXCEPT !.index = 0]
    /\ ret' = [op |-> "rewinddir"]
    /\ UNCHANGED <<image, gp, fs, fh, heap, pc, loc>>

\* frogfs_seekdir(dh, l), step by step: the call rewinds; each round of
\* while (dh->index < loc) calls frogfs_readdir; the call returns when the
\* loop condition is false.
seekdir_call(l) ==
    /\ Idle /\ dh # NULL
    /\ dh' = [dh EXCEPT !.index = 0]
    /\ pc' = "seekdir" /\ loc' = l
    /\ UNCHANGED <<image, gp, fs, fh, heap, ret>>

seekdir_round ==
    /\ pc = "seekdir" /\ dh.index < loc
    /\ dh' = readdir_body(dh).dh
    /\ UNCHANGED <<image, gp, fs, fh, heap, pc, loc, ret>>

seekdir_return ==
    /\ pc = "seekdir" /\ ~(dh.index < loc)
    /\ pc' = "idle" /\ loc' = 0
    /\ ret' = [op |-> "seekdir", loc |-> loc]
    /\ UNCHANGED <<image, gp, fs, fh, dh, heap>>

frogfs_telldir ==
    /\ Idle /\ dh # NULL
    /\ ret' = [op |-> "telldir", index |-> dh.index]
    /\ UNCHANGED <<image, gp, fs, fh, dh, heap, pc, loc>>

\* ------------------------------------------------------------------ files

\* The operations a decompressor's table may hold; read is always there.
\* The tables of the three drivers are not in frogfs.c, so a call is tried
\* with each of these.
DriverOps ==
    { {"open", "read", "seek", "tell", "close"},
      {"open", "read"},
      {"read", "close"},
      {"read"} }

\* flags & FROGFS_OPEN_RAW, FROGFS_OPEN_RAW being one bit.
HasFlag(flags, bit) == (flags \div bit) % 2 = 1

\* The build of a frogfs_open call (CONFIG_FROGFS_USE_DEFLATE and
\* CONFIG_FROGFS_USE_HEATSHRINK), the table of the driver it selects and
\* whether calloc and the driver's open succeed.
OpenEnvs ==
    { env \in [deflate : BOOLEAN, heatshrink : BOOLEAN, ops : DriverOps,
               callocOk : BOOLEAN, openOk : BOOLEAN] :
        \* the driver's open decides only where there is one to call
        "open" \notin env.ops => env.openOk }

\* What the record of a frogfs_open call keeps of its environment: the
\* build.  The rest shows in the handle and in the calls made.
Build(env) == [deflate |-> env.deflate, heatshrink |-> env.heatshrink]

\* select_driver with the compression tag looked at before the RAW flag.
select_driver_tag_first(entry, flags, env) ==
    LET e == image.ent[entry]
    IN IF env.deflate /\ e.compression = FROGFS_COMP_ALGO_DEFLATE
       THEN [real_sz |-> e.real_sz, decomp_funcs |-> "deflate"]
       ELSE IF env.heatshrink /\ e.compression = FROGFS_COMP_ALGO_HEATSHRINK
       THEN [real_sz |-> e.real_sz, decomp_funcs |-> "heatshrink"]
       ELSE IF e.compression = 0 \/ HasFlag(flags, FROGFS_OPEN_RAW)
       THEN [real_sz |-> e.data_sz, decomp_funcs |-> "raw"]
       ELSE NULL

\* The if / else if chain of frogfs_open that selects the driver and the
\* logical size; NULL when no branch but the last applies.
select_driver(entry, flags, env) ==
    LET e == image.ent[entry]
    IN IF e.compression = 0 \/ HasFlag(flags, FROGFS_OPEN_RAW)
       THEN [real_sz |-> e.data_sz, decomp_funcs |-> "raw"]
       ELSE IF env.deflate /\ e.compression = FROGFS_COMP_ALGO_DEFLATE
       THEN [real_sz |-> e.real_sz, decomp_funcs |-> "deflate"]
       ELSE IF env.heatshrink /\ e.compression = FROGFS_COMP_ALGO_HEATSHRINK
       THEN [real_sz |-> e.real_sz, decomp_funcs |-> "heatshrink"]
       ELSE NULL

\* close_calls that returns early, without the free, on a handle with no
\* driver's close to call.
close_calls_early_return(h) ==
    IF h = NULL THEN << >>
    ELSE IF h.decomp_funcs # "none" /\ "close" \in h.ops
    THEN <<"drv_close", "free">>
    ELSE << >>

\* close_calls with the handle freed before the driver's close is called.
close_calls_free_first(h) ==
    IF h = NULL THEN << >>
    ELSE <<"free">> \o (IF h.decomp_funcs # "none" /\ "close" \in h.ops
                        THEN <<"drv_close">> ELSE << >>)

\* The calls frogfs_close makes on a handle: the driver's close when the
\* handle has a driver and the driver has a close, then free; none on NULL.
close_calls(h) ==
    IF h = NULL THEN << >>
    ELSE (IF h.decomp_funcs # "none" /\ "close" \in h.ops
          THEN <<"drv_close">> ELSE << >>) \o <<"free">>

\* frogfs_open from calloc on: the handle returned (or NULL) and the calls
\* made.  err_out is frogfs_close(fh) on the handle as it is by then.
open_body(entry, flags, env) ==
    LET e   == image.ent[entry]
        sel == select_driver(entry, flags, env)
        h0  == [file |-> entry, data_start |-> e.data_offs,
                data_ptr |-> e.data_offs, data_sz |-> e.data_sz,
                flags |-> flags, real_sz |-> 0,
                decomp_funcs |-> "none", ops |-> {}, pos |-> 0]
        h1  == [h0 EXCEPT !.real_sz = sel.real_sz,
                          !.decomp_funcs = sel.decomp_funcs,
                          !.ops = env.ops]
    IN IF ~env.callocOk
       THEN [fh |-> NULL, calls |-> close_calls(NULL)]
       ELSE IF sel = NULL
       THEN [fh |-> NULL, calls |-> <<"calloc">> \o close_calls(h0)]
       ELSE IF "open" \in env.ops
       THEN IF ~env.openOk
            THEN [fh |-> NULL,
                  calls |-> <<"calloc", "drv_open">> \o close_calls(h1)]
            ELSE [fh |-> h1, calls |-> <<"calloc", "drv_open">>]
       ELSE [fh |-> h1, calls |-> <<"calloc">>]

frogfs_open(entry, flags, env) ==
    /\ Idle /\ Bound /\ fh = NULL /\ dh = NULL
    /\ LET r == IF IsDir(entry) THEN [fh |-> NULL, calls |-> << >>]
                ELSE open_body(entry, flags, env)
       IN /\ fh' = r.fh
          /\ heap' = [heap EXCEPT !.fh = @ + Count(r.calls, "calloc")
                                          - Count(r.calls, "free")]
          /\ ret' = [op |-> "open", entry |-> entry, flags |-> flags,
                     build |-> Build(env), fh |-> r.fh, calls |-> r.calls]
    /\ UNCHANGED <<image, gp, fs, dh, pc, loc>>

\* (size_t) -1, the value "return -1" gives in a function that returns
\* size_t: all bits set, size_t being as wide as the size fields (wide
\* FALSE) or twice as wide (wide TRUE).
SizeMax(wide) == IF wide THEN 2 ^ (2 * SizeBits) - 1 ELSE U32Max

\* frogfs_seek(fh, 0, mode), mode being "SET" or "END": routed to the
\* driver's seek if it has one, which leaves the position at the start or
\* at the logical size and returns it; else -1.
frogfs_seek(mode) ==
    /\ Idle /\ fh # NULL
    /\ IF "seek" \in fh.ops
       THEN LET new == IF mode = "SET" THEN 0 ELSE fh.real_sz
            IN /\ fh' = [fh EXCEPT !.pos = new]
               /\ ret' = [op |-> "seek", before |-> fh, result |-> new,
                          calls |-> <<"drv_seek">>]
       ELSE /\ fh' = fh
            /\ ret' = [op |-> "seek", before |-> fh, result |-> -1,
                       calls |-> << >>]
    /\ UNCHANGED <<image, gp, fs, dh, heap, pc, loc>>

\* frogfs_tell(fh): routed to the driver's tell if it has one, which returns
\* the position; else (size_t) -1.
frogfs_tell(wide) ==
    /\ Idle /\ fh # NULL
    /\ IF "tell" \in fh.ops
       THEN ret' = [op |-> "tell", before |-> fh, wide |-> wide,
                    result |-> fh.pos, calls |-> <<"drv_tell">>]
       ELSE ret' = [op |-> "tell", before |-> fh, wide |-> wide,
                    result |-> SizeMax(wide), calls |-> << >>]
    /\ UNCHANGED <<image, gp, fs, fh, dh, heap, pc, loc>>

\* frogfs_close(fh), fh being the client's handle or NULL.
frogfs_close ==
    /\ Idle
    /\ fh' = NULL
    /\ heap' = [heap EXCEPT !.fh = @ - Count(close_calls(fh), "free")]
    /\ ret' = [op |-> "close", calls |-> close_calls(fh)]
    /\ UNCHANGED <<image, gp, fs, dh, pc, loc>>

\* The client takes the record of the last call.
Taken ==
    /\ pc = "idle" /\ ret # NoCall
    /\ ret' = NoCall
    /\ UNCHANGED <<image, gp, fs, fh, dh, heap, pc, loc>>

Init ==
    /\ image \in Images
    /\ fs = NULL /\ fh = NULL /\ dh = NULL
    /\ heap = [fs |-> 0, fh |-> 0, dh |-> 0]
    /\ pc = "idle" /\ loc = 0
    /\ gp = NoFrame
    /\ ret = NoCall

Next ==
    \/ \E conf \in Confs, head \in Heads, callocOk \in BOOLEAN :
         frogfs_init(conf, head, callocOk)
    \/ frogfs_deinit
    \/ /\ Bound
       /\ \E p \in Probes, k \in 0..MaxSlashes, charSigned \in BOOLEAN :
            Resolve(Slashes(k) \o p, charSigned)
    \/ /\ Bound
       /\ \E entry \in Entries, kind \in Kinds, zero \in BOOLEAN,
             callocOk \in BOOLEAN :
            get_path_call(entry, kind, zero, callocOk)
    \/ get_path_round
    \/ get_path_return
    \/ /\ Bound
       /\ \E entry \in Entries : frogfs_stat(entry)
    \/ \E entry \in Entries \cup {NoEntry}, callocOk \in BOOLEAN :
         frogfs_opendir(entry, callocOk)
    \/ frogfs_closedir
    \/ frogfs_readdir
    \/ frogfs_rewinddir
    \/ \E l \in 0..MaxLoc : seekdir_call(l)
    \/ seekdir_round
    \/ seekdir_return
    \/ frogfs_telldir
    \/ \E entry \in Entries, flags \in {0, FROGFS_OPEN_RAW}, env \in OpenEnvs :
         frogfs_open(entry, flags, env)
    \/ \E mode \in {"SET", "END"} : frogfs_seek(mode)
    \/ \E wide \in BOOLEAN : frogfs_tell(wide)
    \/ frogfs_close
    \/ Taken

Spec == Init /\ [][Next]_vars

\* ------------------------------------------------------------- the claims

ChildCount(d) == image.ent[d.dir].child_count

\* The number of leading '/' of a path, and the path without them.
LeadingSlashes(p) ==
    CHOOSE k \in 0..Len(p) :
        /\ \A i \in 1..k : p[i] = Slash
        /\ k < Len(p) => p[k + 1] # Slash
Normalized(p) == SubSeq(p, LeadingSlashes(p) + 1, Len(p))

\* The entries whose path is p.
Named(p) == { E \in Entries : TruePath(E) = p }

\* C1: for every entry E of a well-formed image, frogfs_get_entry of the
\* full path of E returns E.  Stated for the paths that fit the buffer of
\* frogfs_get_path and for a build whose char is unsigned.
C1_ResolvesEveryEntry ==
    (ret.op = "get_entry" /\ ~ret.charSigned) =>
        \A E \in Entries :
            (frogfs_get_path(image, fs, E) = TruePath(E) /\ ret.path = TruePath(E))
                => ret.entry = E

\* C2: frogfs_seekdir(dh, n) terminates and leaves the index at
\* min(n, child_count): every round of its loop that finds index < n
\* advances the index, and at the return the index is min(n, child_count).
C2_SeekdirTerminatesClamped ==
    /\ (pc = "seekdir" /\ dh.index < loc) => dh.index < ChildCount(dh)
    /\ ret.op = "seekdir" => dh.index = Min(ret.loc, ChildCount(dh))

\* C3: a fresh or rewound handle is at index 0; frogfs_readdir at an index
\* below child_count returns the child stored at that index and moves to the
\* next index; at child_count it returns no entry and leaves the index; and
\* through every call the index is within 0..child_count.
C3_ReaddirInOrderThenEnd ==
    /\ dh # NULL => dh.index \in 0..ChildCount(dh)
    /\ (ret.op = "opendir" /\ dh # NULL) => dh.index = 0
    /\ ret.op = "rewinddir" => dh.index = 0
    /\ ret.op = "readdir" =>
         IF ret.index < ChildCount(dh)
         THEN /\ ret.entry = image.ent[dh.dir].children[ret.index + 1]
              /\ dh.index = ret.index + 1
         ELSE /\ ret.entry = NoEntry
              /\ dh.index = ret.index

C3_Witness ==
    /\ ret.op = "readdir" /\ ret.entry = NoEntry
    /\ ret.index = ChildCount(dh) /\ ChildCount(dh) >= 2

\* C4: frogfs_init never returns a descriptor whose hash index, and so
\* whose root pointer, reaches past the end of the image.
C4_BoundIndexInsideImage ==
    fs # NULL => fs.root <= image.bin_sz

\* C5: frogfs_init returns a descriptor only for a header with the magic and
\* the major version of the library, and for every such header it reads,
\* whatever the minor version; on a wrong magic or major, and with neither
\* an address nor a mapped partition, it returns NULL and the descriptor it
\* allocated is freed once.
C5_InitChecksHeaderAndFrees ==
    /\ heap.fs = (IF fs = NULL THEN 0 ELSE 1)
    /\ ret.op = "init" =>
         LET readHead == ret.head # NULL
             good == /\ readHead
                     /\ ret.head.magic = FROGFS_MAGIC
                     /\ ret.head.ver_major = FROGFS_VER_MAJOR
             noSource == ~ret.conf.addr
                         /\ ~(ret.conf.esp /\ ret.conf.part /\ ret.conf.mmap)
         IN /\ ret.fs # NULL <=> good
            /\ noSource => ret.fs = NULL
            /\ (ret.fs = NULL /\ ret.calls # << >>) =>
                 /\ Count(ret.calls, "calloc") = 1
                 /\ Count(ret.calls, "free") = 1
                 /\ ret.calls[Len(ret.calls)] = "free"
                 /\ Count(ret.calls, "munmap") = Count(ret.calls, "mmap")

C5_Witness ==
    /\ ret.op = "init" /\ ret.head # NULL /\ ret.fs = NULL
    /\ ret.head.ver_major # FROGFS_VER_MAJOR
    /\ ret.calls = <<"calloc", "mmap", "munmap", "free">>

\* C6: a handle that frogfs_open returns has the raw driver and real_sz =
\* data_sz when the entry's compression is 0 or the RAW flag is given,
\* whatever the tag; else the DEFLATE or Heatshrink driver and the entry's
\* real_sz when the tag is that driver's and the build has it; no handle is
\* returned for any other tag; and with a driver selected the call fails
\* only if calloc or the driver's open fails.
C6_OpenSelectsDriver ==
    (ret.op = "open" /\ IsFile(ret.entry)) =>
        LET e    == image.ent[ret.entry]
            want == IF e.compression = 0 \/ ret.flags = FROGFS_OPEN_RAW
                    THEN <<"raw", e.data_sz>>
                    ELSE IF e.compression = FROGFS_COMP_ALGO_DEFLATE
                            /\ ret.build.deflate
                    THEN <<"deflate", e.real_sz>>
                    ELSE IF e.compression = FROGFS_COMP_ALGO_HEATSHRINK
                            /\ ret.build.heatshrink
                    THEN <<"heatshrink", e.real_sz>>
                    ELSE <<"none", 0>>
        IN /\ ret.fh # NULL =>
                /\ want[1] # "none"
                /\ ret.fh.decomp_funcs = want[1]
                /\ ret.fh.real_sz = want[2]
                /\ ret.fh.data_sz = e.data_sz
           /\ (ret.fh = NULL /\ want[1] # "none") =>
                \/ ret.calls = << >>
                \/ Count(ret.calls, "drv_open") = 1

C6_Witness ==
    /\ ret.op = "open" /\ ret.fh # NULL
    /\ ret.flags = FROGFS_OPEN_RAW
    /\ image.ent[ret.entry].compression = FROGFS_COMP_ALGO_DEFLATE
    /\ ret.build.deflate
    /\ ret.fh.decomp_funcs = "raw"
    /\ ret.fh.real_sz = image.ent[ret.entry].data_sz

\* C7: a frogfs_open call that returns no handle leaves no handle block
\* allocated: a block it got from calloc it frees once, as its last call,
\* and for a directory it makes no call at all.
C7_FailedOpenFreesHandle ==
    /\ heap.fh = (IF fh = NULL THEN 0 ELSE 1)
    /\ (ret.op = "open" /\ ret.fh = NULL) =>
         /\ fh = NULL
         /\ Count(ret.calls, "calloc") <= 1
         /\ Count(ret.calls, "free") = Count(ret.calls, "calloc")
         /\ ret.calls # << >> =>
              /\ ret.calls[1] = "calloc"
              /\ ret.calls[Len(ret.calls)] = "free"
         /\ IsDir(ret.entry) => ret.calls = << >>

C7_Witness ==
    /\ ret.op = "open" /\ ret.fh = NULL /\ heap.fh = 0
    /\ ret.calls = <<"calloc", "free">>
    /\ image.ent[ret.entry].compression = FROGFS_COMP_ALGO_HEATSHRINK

\* C8: frogfs_get_entry of a path with any number of leading '/' returns
\* what it returns for the path with all its leading '/' removed.
C8_LeadingSlashesIgnored ==
    ret.op = "get_entry" =>
        ret.entry = frogfs_get_entry(image, fs, Normalized(ret.path),
                                     ret.charSigned).entry

C8_Witness ==
    /\ ret.op = "get_entry" /\ LeadingSlashes(ret.path) >= 2
    /\ ret.entry # NoEntry /\ ret.entry # fs.root

\* C9: frogfs_get_entry of the empty path, and of a path of '/' characters
\* only, returns the root directory entry, fs->root.
C9_EmptyPathIsRoot ==
    (ret.op = "get_entry" /\ Normalized(ret.path) = << >>) =>
        ret.entry = fs.root

C11_PathHasNoLeadingSlash ==
    (ret.op = "get_path" /\ ret.ok /\ ret.kind = "tree" /\ ~ret.zero) =>
        /\ ret.path = << >> \/ Head(ret.path) # Slash
        /\ ret.entry = fs.root => ret.path = << >>
        /\ Len(TruePath(ret.entry)) + 1 <= PATH_MAX
             => ret.path = TruePath(ret.entry)

\* C12: frogfs_stat reports the entry's type and compression tag; size and
\* compressed size 0 for a directory; both data_sz for a file with
\* compression 0; size real_sz and compressed size data_sz for a compressed
\* file.
C12_StatSizes ==
    ret.op = "stat" =>
        LET e == image.ent[ret.entry]
        IN /\ ret.st.type = e.type
           /\ ret.st.compression = e.compression
           /\ e.type = "DIR" => ret.st.size = 0 /\ ret.st.compressed_sz = 0
           /\ (e.type = "FILE" /\ e.compression = 0) =>
                ret.st.size = e.data_sz /\ ret.st.compressed_sz = e.data_sz
           /\ (e.type = "FILE" /\ e.compression # 0) =>
                ret.st.size = e.real_sz /\ ret.st.compressed_sz = e.data_sz

C12_Witness ==
    /\ ret.op = "stat"
    /\ image.ent[ret.entry].compression = FROGFS_COMP_ALGO_HEATSHRINK
    /\ ret.st.size = image.ent[ret.entry].real_sz
    /\ ret.st.compressed_sz = image.ent[ret.entry].data_sz
    /\ ret.st.size # ret.st.compressed_sz

\* C13: frogfs_close on a live handle calls the driver's close once if the
\* driver has one, and not otherwise, then frees the handle once, the free
\* being its last call; frogfs_close and frogfs_closedir on NULL make no
\* call and free nothing.
C13_CloseCallsDriverThenFrees ==
    [][ /\ (ret.op # "close" /\ ret'.op = "close") =>
             IF fh = NULL
             THEN ret'.calls = << >> /\ heap' = heap
             ELSE /\ Count(ret'.calls, "drv_close")
                       = (IF "close" \in fh.ops THEN 1 ELSE 0)
                  /\ Count(ret'.calls, "free") = 1
                  /\ ret'.calls[Len(ret'.calls)] = "free"
                  /\ Len(ret'.calls) = Count(ret'.calls, "drv_close") + 1
                  /\ heap'.fh = heap.fh - 1
        /\ (ret.op # "closedir" /\ ret'.op = "closedir" /\ dh = NULL) =>
             ret'.calls = << >> /\ heap' = heap
      ]_vars

C13_Witness ==
    /\ ret.op = "close" /\ ret.calls = <<"drv_close", "free">>
    /\ fh = NULL /\ heap.fh = 0

\* C14: on a handle whose driver has no seek (no tell), frogfs_seek
\* (frogfs_tell) makes no driver call, leaves the handle as it was, and
\* returns a value that is no position of the handle's stream, 0 up to its
\* logical size.
C14_MissingOpIsUnsupported ==
    /\ (ret.op = "seek" /\ "seek" \notin ret.before.ops) =>
         /\ ret.calls = << >> /\ fh = ret.before
         /\ ret.result \notin 0..ret.before.real_sz
    /\ (ret.op = "tell" /\ "tell" \notin ret.before.ops) =>
         /\ ret.calls = << >> /\ fh = ret.before
         /\ ret.result \notin 0..ret.before.real_sz

\* C15: frogfs_opendir with a NULL entry returns a handle on the root
\* directory at index 0, with a directory entry a handle on that directory
\* at index 0, and with a file entry no handle, without allocating one.
C15_OpendirBindsDirectory ==
    ret.op = "opendir" =>
        IF ret.entry # NoEntry /\ IsFile(ret.entry)
        THEN dh = NULL /\ ret.calls = << >> /\ heap.dh = 0
        ELSE /\ ret.calls # << >> <=> dh # NULL
             /\ dh # NULL =>
                  /\ dh.dir = (IF ret.entry = NoEntry THEN fs.root
                               ELSE ret.entry)
                  /\ IsDir(dh.dir)
                  /\ dh.index = 0
                  /\ heap.dh = 1

C15_Witness ==
    /\ ret.op = "opendir" /\ ret.entry = NoEntry
    /\ dh # NULL /\ dh.dir = fs.root /\ dh.index = 0
    /\ image.ent[dh.dir].parent = 0

RECURSIVE SpecHash(_, _)
\* The recurrence h := ((h << 5) + h) XOR b over the bytes of s, from h, in
\* 32-bit wrap-around arithmetic on h = <<hi, lo>>, every byte b being an
\* unsigned 8-bit value.
SpecHash(h, s) ==
    IF s = << >> THEN h
    ELSE LET shLo  == (h[2] * 32) % 65536
             shHi  == (h[1] * 32 + (h[2] * 32) \div 65536) % 65536
             sumLo == shLo + h[2]
             sumHi == (shHi + h[1] + sumLo \div 65536) % 65536
             lo    == sumLo % 65536
             x     == XorBits(lo % 256, Head(s), 8)
         IN SpecHash(<< sumHi, (lo \div 256) * 256 + x >>, Tail(s))

\* C16: the hash frogfs_get_entry searches for is the recurrence from 5381
\* over the bytes of the path without its leading '/', each byte taken as
\* an unsigned 8-bit value, in every build.
C16_HashIsUnsignedRecurrence ==
    ret.op = "get_entry" =>
        djb2_hash(StripSlashes(ret.path), ret.charSigned)
            = SpecHash(<<0, 5381>>, Normalized(ret.path))

\* The hash a frogfs_get_entry call searched for, and the indexes (from 0)
\* of the records of the hash index that have it.
SearchedHash == djb2_hash(StripSlashes(ret.path), ret.charSigned)
TieGroup == { i \in 0..(image.num_entries - 1) :
                HashAt(image, i).hash = SearchedHash }

\* C17: when the binary search of frogfs_get_entry finds the hash, the first
\* record the candidate walk examines is the record of lowest index with
\* that hash, also when that index is 0.
C17_RewindReachesFirstTie ==
    (ret.op = "get_entry" /\ ret.examined # << >>) =>
        \A i \in TieGroup : ret.examined[1] <= i

\* C18: the candidate walk of frogfs_get_entry examines a different record
\* in each round, in ascending index order, every one a record with the
\* searched hash; it stops at the first record whose path is the input, and
\* when it returns no entry it has gone on to the last record with that
\* hash.
C18_WalkExaminesEveryTie ==
    (ret.op = "get_entry" /\ ret.examined # << >>) =>
        LET n == Len(ret.examined)
        IN /\ \A k \in 1..(n - 1) : ret.examined[k + 1] = ret.examined[k] + 1
           /\ \A k \in 1..n : ret.examined[k] \in TieGroup
           /\ ret.entry # NoEntry =>
                ret.entry = HashAt(image, ret.examined[n]).offs
           /\ ret.entry = NoEntry =>
                \A i \in TieGroup : i <= ret.examined[n]

\* C19: frogfs_get_path terminates on every image, also one whose parent
\* offsets form a cycle that does not reach the root and whose entries have
\* seg_sz 0: every round of its loop but the last adds at least 1 to len,
\* and a round is made only while len is below PATH_MAX - 2, so a call makes
\* at most PATH_MAX - 1 rounds.  frogfs_get_entry on such an image examines
\* at most as many candidates as the index has records.
C19_GetPathTerminates ==
    /\ pc = "get_path" =>
         /\ gp.len <= PATH_MAX - 2
         /\ gp.rounds <= gp.len + (IF gp.done THEN 1 ELSE 0)
    /\ ret.op = "get_path" =>
         /\ ret.rounds <= PATH_MAX - 1
         /\ LET img == [image EXCEPT !.ent = Malformed(ret.kind, ret.zero)]
                r   == frogfs_get_entry(img, fs, TruePath(ret.entry), FALSE)
            IN Len(r.examined) <= image.num_entries

C19_Witness ==
    /\ ret.op = "get_path" /\ ret.kind = "ring" /\ ret.zero
    /\ Cardinality(NonRoot) >= 2
    /\ ret.rounds = PATH_MAX - 2

\* C20: in frogfs_get_path every memmove and memcpy writes inside the
\* buffer of PATH_MAX bytes, len never exceeds PATH_MAX - 2, and the buffer
\* holds a string of len bytes, so its terminator is inside the buffer.
C20_WritesInsideBuffer ==
    /\ pc = "get_path" =>
         /\ gp.hi <= PATH_MAX
         /\ gp.len <= PATH_MAX - 2
         /\ Len(gp.path) = gp.len
    /\ (ret.op = "get_path" /\ ret.ok) =>
         /\ ret.hi <= PATH_MAX
         /\ ret.len <= PATH_MAX - 2
         /\ Len(ret.path) = ret.len

C20_Witness ==
    /\ ret.op = "get_path" /\ ret.ok /\ ret.kind = "self" /\ ~ret.zero
    /\ ret.rounds >= 2
    /\ ret.hi = ret.len + 1
    /\ ret.len + image.ent[ret.entry].seg_sz + 1 >= PATH_MAX - 1

====
